---- MODULE Spec2Model ----
(***************************************************************************)
(* Smart evacuation router: road-network annotation (data_processing.py),  *)
(* exit-node discovery and the A* evacuation search                        *)
(* (evacuation_algorithm.py).                                              *)
(*                                                                         *)
(* Conventions of the model                                                *)
(*  - A Python dict is a function whose DOMAIN is the set of keys present  *)
(*    ('k' in d  is  "k" \in DOMAIN d;  d.get(k, v)  is  Get(d, k, v)).    *)
(*  - All nodes and the hazard centre lie on one meridian (x = 0), so the  *)
(*    haversine distance of two points is the absolute difference of      *)
(*    their latitudes.  Latitude and length are counted in units of 50 m:  *)
(*    radius 1000 m is 20, the 100 m buffer is 2, the default edge length  *)
(*    100 is 2.                                                            *)
(*  - Scores that the code keeps as floats are kept exactly, multiplied    *)
(*    by a common denominator (f_score by 2*radius, exit scores by         *)
(*    2*buffer_distance); float('inf') is Inf.                             *)
(*  - A networkx graph is [multi, node, edge]: multi tells a               *)
(*    Multi(Di)Graph (what osmnx's graph_from_point yields, app.py:101)    *)
(*    from a simple Graph; the two classes answer get_edge_data(u, v)      *)
(*    differently (see get_edge_data below).  Every road is two-way.       *)
(***************************************************************************)
EXTENDS Integers, Sequences, FiniteSets, TLC

VARIABLES heap, road_network, pc, start_node, disaster_node, disaster_radius,
          exit_nodes, open_set, open_set_hash, came_from, g_score, f_score,
          result, session

vars == <<heap, road_network, pc, start_node, disaster_node, disaster_radius,
          exit_nodes, open_set, open_set_hash, came_from, g_score, f_score,
          result, session>>

(* ------------------------------ dicts -------------------------------- *)

EmptyDict == [k \in {} |-> 0]

Get(d, k, default) == IF k \in DOMAIN d THEN d[k] ELSE default

SetItem(d, k, v) == [kk \in DOMAIN d \cup {k} |-> IF kk = k THEN v ELSE d[kk]]

Abs(a) == IF a < 0 THEN -a ELSE a

Min(a, b) == IF a < b THEN a ELSE b

(* float('inf'): larger than every finite score of the model *)
Inf == 1000000000

Plus(a, b) == IF a >= Inf \/ b >= Inf THEN Inf ELSE a + b

(* --------------------------- program constants ----------------------- *)

buffer_distance == 2

default_length == 2

water_penalty_factor == 10000

max_exit_nodes == 10

major_road_types == {"motorway", "trunk", "primary", "secondary", "tertiary"}

NoneNode == 0

(* ------------------------------ graphs ------------------------------- *)

Nodes(G) == DOMAIN G.node

Edges(G) == DOMAIN G.edge

(* G.neighbors(n) *)
neighbors(G, n) == {m \in Nodes(G) : {n, m} \in Edges(G)}

(* G.get_edge_data(u, v, default={}): the attribute dict of the edge for a *)
(* simple Graph; for a Multi(Di)Graph the dict  edge key -> attribute dict *)
(* of the parallel edges between u and v (one edge, key 0, here).          *)
get_edge_data(G, u, v) ==
    IF {u, v} \notin Edges(G) THEN EmptyDict
    ELSE IF G.multi THEN [k \in {"0"} |-> G.edge[{u, v}]]
    ELSE G.edge[{u, v}]

(* the attribute dicts G.edges(n, data=True) yields, in adjacency order    *)
(* (ascending neighbour id)                                                *)
RECURSIVE SeqOfSet(_)
SeqOfSet(S) ==
    IF S = {} THEN <<>>
    ELSE LET m == CHOOSE x \in S : \A y \in S : x <= y
         IN <<m>> \o SeqOfSet(S \ {m})

incident_edge_data(G, n) ==
    LET ns == SeqOfSet(neighbors(G, n))
    IN [i \in 1..Len(ns) |-> G.edge[{n, ns[i]}]]

(* ---------------- data_processing.filter_road_network ---------------- *)

natural_water == {"water", "coastline", "wetland", "bay", "beach", "marsh"}

waterway_water == {"river", "canal", "stream", "ditch", "dock", "riverbank"}

landuse_water == {"reservoir", "basin", "water"}

bridge_false == {"no", "false", "0"}

(* the is_water value the node loop computes from a node's tags *)
node_is_water(data) ==
    \/ ("natural" \in DOMAIN data /\ data["natural"] \in natural_water)
    \/ ("waterway" \in DOMAIN data /\ data["waterway"] \in waterway_water)
    \/ "water" \in DOMAIN data \/ "harbour" \in DOMAIN data \/ "dock" \in DOMAIN data
    \/ ("landuse" \in DOMAIN data /\ data["landuse"] \in landuse_water)

is_bridge(data) == "bridge" \in DOMAIN data /\ data["bridge"] \notin bridge_false

(* mutant of edge_is_water: the edge-tag check does not exempt bridges *)
edge_is_water_tags_win(nd, u, v, data) ==
    LET node_u_in_water == Get(nd[u], "is_water", FALSE)
        node_v_in_water == Get(nd[v], "is_water", FALSE)
    IN IF \E tag \in {"waterway", "water", "natural"} : tag \in DOMAIN data
       THEN TRUE
       ELSE (node_u_in_water \/ node_v_in_water) /\ ~is_bridge(data)

(* the is_water value the edge loop leaves on an edge; nd is the node      *)
(* attribute map after the node loop                                       *)
edge_is_water(nd, u, v, data) ==
    LET node_u_in_water == Get(nd[u], "is_water", FALSE)
        node_v_in_water == Get(nd[v], "is_water", FALSE)
        first == (node_u_in_water \/ node_v_in_water) /\ ~is_bridge(data)
    IN IF (\E tag \in {"waterway", "water", "natural"} : tag \in DOMAIN data)
          /\ ~is_bridge(data)
       THEN TRUE
       ELSE first

(* mutant of graph_copy: no copy is made, the same graph object is used *)
graph_alias(hp, h) == [heap |-> hp, ref |-> h]

(* G.copy(): a new graph object with its own attribute dicts.  hp is the   *)
(* object store (graph handle -> graph), h the handle copied.              *)
graph_copy(hp, h) ==
    LET new == Cardinality(DOMAIN hp) + 1
    IN [heap |-> [i \in DOMAIN hp \cup {new} |-> IF i = new THEN hp[h] ELSE hp[i]],
        ref |-> new]

filter_road_network(hp, h) ==
    LET c == graph_copy(hp, h)
        G == c.heap[c.ref]
        nd == [n \in Nodes(G) |->
                 SetItem(G.node[n], "is_water", node_is_water(G.node[n]))]
        ed == [e \in Edges(G) |->
                 LET u == CHOOSE x \in e : \A y \in e : x <= y
                     v == CHOOSE x \in e : \A y \in e : x >= y
                 IN SetItem(G.edge[e], "is_water",
                            edge_is_water(nd, u, v, G.edge[e]))]
    IN [heap |-> [c.heap EXCEPT ![c.ref] = [G EXCEPT !.node = nd, !.edge = ed]],
        ref |-> c.ref]

(* -------------------- evacuation_algorithm: geometry ------------------ *)

(* haversine_distance on one meridian (lon1 = lon2), in units of 50 m *)
haversine_distance(lat1, lon1, lat2, lon2) == Abs(lat1 - lat2)

(* mutant of is_in_disaster_radius: the boundary is exclusive *)
is_in_disaster_radius_strict(point, dnode, radius, G) ==
    LET node == G.node[point]
    IN haversine_distance(node["y"], node["x"], dnode[1], dnode[2]) < radius

is_in_disaster_radius(point, dnode, radius, G) ==
    LET node == G.node[point]
    IN haversine_distance(node["y"], node["x"], dnode[1], dnode[2]) <= radius

(* --------------- evacuation_algorithm.get_disaster_exit_nodes --------- *)

has_xy(data) == "x" \in DOMAIN data /\ "y" \in DOMAIN data

center_distance(G, n, dnode) ==
    haversine_distance(G.node[n]["y"], G.node[n]["x"], dnode[1], dnode[2])

(* first pass: non-water nodes with coordinates, by distance *)
inside_nodes(G, dnode, radius) ==
    {n \in Nodes(G) : /\ has_xy(G.node[n])
                      /\ ~Get(G.node[n], "is_water", FALSE)
                      /\ center_distance(G, n, dnode) <= radius}

(* mutant of outside_nodes: the outer edge of the buffer is exclusive *)
outside_nodes_open_buffer(G, dnode, radius) ==
    {n \in Nodes(G) : /\ has_xy(G.node[n])
                      /\ ~Get(G.node[n], "is_water", FALSE)
                      /\ center_distance(G, n, dnode) > radius
                      /\ center_distance(G, n, dnode) < radius + buffer_distance}

outside_nodes(G, dnode, radius) ==
    {n \in Nodes(G) : /\ has_xy(G.node[n])
                      /\ ~Get(G.node[n], "is_water", FALSE)
                      /\ center_distance(G, n, dnode) > radius
                      /\ center_distance(G, n, dnode) <= radius + buffer_distance}

(* the outside ends of the boundary pairs, duplicates removed *)
exit_node_candidates(G, dnode, radius) ==
    {nb \in outside_nodes(G, dnode, radius) :
        \E i \in inside_nodes(G, dnode, radius) :
            /\ nb \in neighbors(G, i)
            /\ ~Get(get_edge_data(G, i, nb), "is_water", FALSE)}

(* the highway value of the first incident edge that has one *)
RECURSIVE first_highway(_, _)
first_highway(eds, i) ==
    IF i > Len(eds) THEN "unknown"
    ELSE IF "highway" \in DOMAIN eds[i] THEN eds[i]["highway"]
    ELSE first_highway(eds, i + 1)

highway_type(G, n) == first_highway(incident_edge_data(G, n), 1)

(* road_score, times 2 *)
road_score2(G, n) == IF highway_type(G, n) \in major_road_types THEN 1 ELSE 0

(* final_score = proximity_score + road_score, times 2*buffer_distance *)
final_score(G, n, dnode, radius) ==
    LET border_distance == center_distance(G, n, dnode) - radius
    IN 2 * (buffer_distance - border_distance) + buffer_distance * road_score2(G, n)

(* list.sort(key=score, reverse=True): stable, so equal scores keep the   *)
(* order of the list sorted (here ascending node id, the iteration order  *)
(* of a set of small integers)                                            *)
RECURSIVE sort_by_score(_, _, _, _)
sort_by_score(S, G, dnode, radius) ==
    IF S = {} THEN <<>>
    ELSE LET best == CHOOSE x \in S : \A y \in S :
                        \/ final_score(G, x, dnode, radius) > final_score(G, y, dnode, radius)
                        \/ /\ final_score(G, x, dnode, radius) = final_score(G, y, dnode, radius)
                           /\ x <= y
         IN <<best>> \o sort_by_score(S \ {best}, G, dnode, radius)

(* mutant of get_disaster_exit_nodes: the sorted list is not cut *)
get_disaster_exit_nodes_uncut(G, dnode, radius) ==
    LET cands == exit_node_candidates(G, dnode, radius)
        scored == {n \in cands : ~Get(G.node[n], "is_water", FALSE)}
        sorted == sort_by_score(scored, G, dnode, radius)
    IN IF sorted = <<>> /\ cands # {} THEN <<SeqOfSet(cands)[1]>> ELSE sorted

get_disaster_exit_nodes(G, dnode, radius) ==
    LET cands == exit_node_candidates(G, dnode, radius)
        scored == {n \in cands : ~Get(G.node[n], "is_water", FALSE)}
        sorted == sort_by_score(scored, G, dnode, radius)
        top == SubSeq(sorted, 1, Min(max_exit_nodes, Len(sorted)))
    IN IF top = <<>> /\ cands # {} THEN <<SeqOfSet(cands)[1]>> ELSE top

Range(s) == {s[i] : i \in DOMAIN s}

(* ------------------ evacuation_algorithm.a_star_evacuation ------------ *)

RECURSIVE min_exit_distance(_, _, _)
min_exit_distance(G, node, exits) ==
    IF exits = {} THEN Inf
    ELSE LET e == CHOOSE x \in exits : TRUE
             rest == min_exit_distance(G, node, exits \ {e})
         IN IF has_xy(G.node[e])
            THEN Min(rest, haversine_distance(G.node[node]["y"], G.node[node]["x"],
                                              G.node[e]["y"], G.node[e]["x"]))
            ELSE rest

(* heuristic(node), times 2*radius: 1 + border_factor is                  *)
(* (2*radius + 3*(radius - d)) / (2*radius)                               *)
heuristic(G, exits, dnode, radius, node) ==
    LET node_data == G.node[node]
    IN IF ~has_xy(node_data) THEN Inf
       ELSE IF Get(node_data, "is_water", FALSE) THEN Inf
       ELSE LET d == center_distance(G, node, dnode)
                m == min_exit_distance(G, node, Range(exits))
            IN IF m >= Inf THEN Inf
               ELSE IF d <= radius THEN m * (2 * radius + 3 * (radius - d))
               ELSE m * 2 * radius

(* edge_length * water_penalty for the step current -> neighbor *)
edge_cost(G, current, neighbor) ==
    LET edge_data == get_edge_data(G, current, neighbor)
        edge_length == Get(edge_data, "length", default_length)
        water_penalty == IF Get(edge_data, "is_water", FALSE)
                         THEN water_penalty_factor ELSE 1
    IN edge_length * water_penalty

(* the path rebuilt from came_from, start first *)
RECURSIVE walk_back(_, _)
walk_back(cf, current) ==
    IF current \in DOMAIN cf
    THEN Append(walk_back(cf, cf[current]), current)
    ELSE <<>>

(* the path left in goal-first order *)
reconstruct_path_unreversed(cf, current, start) ==
    LET p == <<start>> \o walk_back(cf, current)
    IN [i \in 1..Len(p) |-> p[Len(p) + 1 - i]]

reconstruct_path(cf, current, start) == <<start>> \o walk_back(cf, current)

(* the entry PriorityQueue.get() returns: the least (priority, node) tuple *)
pq_min(q) ==
    CHOOSE e \in q : \A o \in q : e[1] < o[1] \/ (e[1] = o[1] /\ e[2] <= o[2])

(* ------------------------- networks of the model ---------------------- *)

Merge(d, e) == [k \in DOMAIN d \cup DOMAIN e |-> IF k \in DOMAIN e THEN e[k] ELSE d[k]]

XY(p) == [x |-> 0, y |-> p]

(* Road networks for routing: five nodes on the meridian at one of two     *)
(* layouts (the first is the chain 0 m, 400 m, 900 m, 1100 m, 1600 m), any *)
(* subset of six candidate roads, lengths either the geodesic distance of *)
(* the ends or absent, and at most MaxIrregular irregularities: a node     *)
(* with a water tag, a node without coordinates, a road with a waterway    *)
(* tag.                                                                    *)
SitePos == { <<0, 8, 18, 22, 32>>, <<0, -10, -21, 22, 20>> }

CandEdges == { {1, 2}, {2, 3}, {3, 4}, {4, 5}, {1, 4}, {3, 5} }

MaxIrregular == 1

Irregularities(E) ==
    {[kind |-> k, at |-> {n}] : k \in {"water_node", "no_xy"}, n \in 1..5}
    \cup {[kind |-> "water_edge", at |-> e] : e \in E}

RECURSIVE SubsetsUpTo(_, _)
SubsetsUpTo(S, k) ==
    IF k = 0 THEN {{}}
    ELSE LET smaller == SubsetsUpTo(S, k - 1)
         IN smaller \cup {I \cup {x} : I \in smaller, x \in S}

IrregularSets(E) == SubsetsUpTo(Irregularities(E), MaxIrregular)

RoutingNet(pos, E, I, with_length, multi) ==
    [multi |-> multi,
     node |-> [n \in 1..5 |->
                 LET base == IF [kind |-> "no_xy", at |-> {n}] \in I
                             THEN [street_count |-> 2] ELSE XY(pos[n])
                 IN IF [kind |-> "water_node", at |-> {n}] \in I
                    THEN Merge(base, [natural |-> "water"])
                    ELSE base],
     edge |-> [e \in E |->
                 LET u == CHOOSE x \in e : \A y \in e : x <= y
                     v == CHOOSE x \in e : \A y \in e : x >= y
                     base == IF with_length
                             THEN [length |-> Abs(pos[u] - pos[v])]
                             ELSE [oneway |-> FALSE]
                 IN IF [kind |-> "water_edge", at |-> e] \in I
                    THEN Merge(base, [waterway |-> "river"])
                    ELSE base]]

(* Tagged networks for annotation: two joined nodes, 900 m and 1100 m from *)
(* the centre, every combination of node tags and road tags.               *)
NodeTagChoices ==
    { EmptyDict, [natural |-> "water"], [natural |-> "peak"],
      [waterway |-> "river"], [waterway |-> "weir"], [harbour |-> "yes"],
      [landuse |-> "basin"], [landuse |-> "retail"] }

BridgeChoices ==
    { EmptyDict, [bridge |-> "yes"], [bridge |-> "viaduct"],
      [bridge |-> "no"], [bridge |-> "false"], [bridge |-> "0"] }

EdgeWaterTagChoices ==
    { EmptyDict, [waterway |-> "river"], [natural |-> "water"], [water |-> "lake"] }

TagNet(t1, t2, b, w, multi) ==
    [multi |-> multi,
     node |-> [n \in 1..2 |-> Merge(XY(IF n = 1 THEN 18 ELSE 22), IF n = 1 THEN t1 ELSE t2)],
     edge |-> [e \in {{1, 2}} |-> Merge(Merge([length |-> 4], b), w)]]

(* Star networks for exit discovery: a hub 900 m from the centre joined to *)
(* k leaves just outside the radius; the first `near` leaves lie 50 m      *)
(* outside, the others 100 m; every third road is a primary road, every    *)
(* third a residential one; at most one leaf carries a water tag.          *)
NumLeaves == 12

StarNet(k, near, wet, multi) ==
    [multi |-> multi,
     node |-> [n \in 1..(k + 1) |->
                 LET p == IF n = 1 THEN 18 ELSE IF n - 1 <= near THEN 21 ELSE 22
                 IN IF n = wet THEN Merge(XY(p), [natural |-> "beach"]) ELSE XY(p)],
     edge |-> [e \in {{1, n} : n \in 2..(k + 1)} |->
                 LET leaf == CHOOSE x \in e : x # 1
                 IN IF leaf % 3 = 0 THEN [length |-> 4, highway |-> "primary"]
                    ELSE IF leaf % 3 = 1 THEN [length |-> 4, highway |-> "residential"]
                    ELSE [length |-> 4]]]

(* Junction networks for exit scoring: node 2, 100 m outside the radius,   *)
(* lies between the 900 m node 1 and the 1600 m node 3; each of its two    *)
(* roads has a road class of its own, or none.                             *)
HighwayChoices == { EmptyDict, [highway |-> "residential"], [highway |-> "primary"] }

JunctionNet(h1, h2, multi) ==
    [multi |-> multi,
     node |-> [n \in 1..3 |-> XY(IF n = 1 THEN 18 ELSE IF n = 2 THEN 22 ELSE 32)],
     edge |-> [e \in {{1, 2}, {2, 3}} |->
                 Merge([oneway |-> FALSE], IF e = {1, 2} THEN h1 ELSE h2)]]

(* the hazards a route is asked for: centre on the meridian, radius 1000 m *)
DisasterNodes == {<<0, 0>>}

Radii == {20}

(* ------------------------------ state --------------------------------- *)

NoResult == [kind |-> "pending", path |-> <<>>]

ReturnNone == [kind |-> "None", path |-> <<>>]

ReturnPath(p) == [kind |-> "path", path |-> p]

RaiseKeyError == [kind |-> "KeyError", path |-> <<>>]

(* handle of the graph the provider returned *)
G_source == 1

(* the object store holding the graph the provider returned *)
(* app.py:20-34: st.session_state before the first run; units of 50 m *)
NoDisaster == <<>>

default_radius == 20

NewSession ==
    [disaster_node |-> NoDisaster,
     disaster_radius |-> default_radius,
     person_nodes |-> <<>>,
     evacuation_routes |-> EmptyDict,
     map_initialized |-> FALSE]

Loaded(G) == [h \in {G_source} |-> G]

Init ==
    /\ \/ \E pos \in SitePos, E \in SUBSET CandEdges, wl \in BOOLEAN, m \in BOOLEAN :
             \E I \in IrregularSets(E) : heap = Loaded(RoutingNet(pos, E, I, wl, m))
       \/ \E t1 \in NodeTagChoices, t2 \in NodeTagChoices, b \in BridgeChoices,
             w \in EdgeWaterTagChoices, m \in BOOLEAN :
             heap = Loaded(TagNet(t1, t2, b, w, m))
       \/ \E k \in (NumLeaves - 1)..NumLeaves, m \in BOOLEAN :
             \E near \in 0..k, wet \in {0} \cup 2..(k + 1) :
                heap = Loaded(StarNet(k, near, wet, m))
       \/ \E h1 \in HighwayChoices, h2 \in HighwayChoices, m \in BOOLEAN :
             heap = Loaded(JunctionNet(h1, h2, m))
    /\ road_network = 0
    /\ pc = "load"
    /\ start_node = NoneNode
    /\ disaster_node = <<0, 0>>
    /\ disaster_radius = 0
    /\ exit_nodes = <<>>
    /\ open_set = {}
    /\ open_set_hash = {}
    /\ came_from = EmptyDict
    /\ g_score = EmptyDict
    /\ f_score = EmptyDict
    /\ result = NoResult
    /\ session = NewSession

search_vars == <<start_node, disaster_node, disaster_radius, exit_nodes, open_set,
                 open_set_hash, came_from, g_score, f_score, result>>

(* app.py:108-112: the loaded network is annotated and stored *)
FilterRoadNetwork ==
    /\ pc = "load"
    /\ LET r == filter_road_network(heap, G_source)
       IN /\ heap' = r.heap
          /\ road_network' = r.ref
    /\ pc' = "ready"
    /\ UNCHANGED <<search_vars, session>>

RoadNetwork == heap[road_network]

(* a_star_evacuation up to the search loop *)
AStarCall ==
    /\ pc = "ready"
    /\ \E s \in Nodes(RoadNetwork) \cup {NoneNode}, dn \in DisasterNodes, r \in Radii :
         LET G == RoadNetwork
             exits == get_disaster_exit_nodes(G, dn, r)
         IN /\ start_node' = s
            /\ disaster_node' = dn
            /\ disaster_radius' = r
            /\ IF s = NoneNode
               THEN /\ result' = ReturnNone
                    /\ pc' = "done"
                    /\ UNCHANGED <<exit_nodes, open_set, open_set_hash, came_from,
                                   g_score, f_score>>
               ELSE IF ~has_xy(G.node[s])
               THEN /\ result' = RaiseKeyError
                    /\ pc' = "done"
                    /\ UNCHANGED <<exit_nodes, open_set, open_set_hash, came_from,
                                   g_score, f_score>>
               ELSE IF ~is_in_disaster_radius(s, dn, r, G)
               THEN /\ result' = ReturnPath(<<>>)
                    /\ pc' = "done"
                    /\ UNCHANGED <<exit_nodes, open_set, open_set_hash, came_from,
                                   g_score, f_score>>
               ELSE IF exits = <<>>
               THEN /\ result' = ReturnNone
                    /\ pc' = "done"
                    /\ exit_nodes' = exits
                    /\ UNCHANGED <<open_set, open_set_hash, came_from, g_score, f_score>>
               ELSE /\ exit_nodes' = exits
                    /\ open_set' = {<<0, s>>}
                    /\ came_from' = EmptyDict
                    /\ g_score' = [n \in Nodes(G) |-> IF n = s THEN 0 ELSE Inf]
                    /\ f_score' = [n \in Nodes(G) |->
                                     IF n = s THEN heuristic(G, exits, dn, r, s) ELSE Inf]
                    /\ open_set_hash' = {s}
                    /\ result' = NoResult
                    /\ pc' = "search"
    /\ UNCHANGED <<heap, road_network, session>>

(* an iteration that also refuses to cross is_water edges *)
improved_dry_edges(G, current) ==
    {nb \in neighbors(G, current) :
        /\ ~Get(G.node[nb], "is_water", FALSE)
        /\ ~Get(get_edge_data(G, current, nb), "is_water", FALSE)
        /\ Plus(g_score[current], edge_cost(G, current, nb)) < g_score[nb]}

(* an iteration that relaxes a neighbour whether or not its g_score drops *)
improved_any(G, current) ==
    {nb \in neighbors(G, current) : ~Get(G.node[nb], "is_water", FALSE)}

(* the neighbours of current whose g_score the iteration lowers *)
improved(G, current) ==
    {nb \in neighbors(G, current) :
        /\ ~Get(G.node[nb], "is_water", FALSE)
        /\ Plus(g_score[current], edge_cost(G, current, nb)) < g_score[nb]}

(* one iteration of the search loop *)
SearchStep ==
    /\ pc = "search"
    /\ open_set # {}
    /\ LET G == RoadNetwork
           entry == pq_min(open_set)
           current == entry[2]
           hash1 == open_set_hash \ {current}
           imp == improved(G, current)
           tentative(nb) == Plus(g_score[current], edge_cost(G, current, nb))
           f(nb) == Plus(tentative(nb) * 2 * disaster_radius,
                         heuristic(G, exit_nodes, disaster_node, disaster_radius, nb))
       IN IF current \in Range(exit_nodes)
          THEN /\ result' = ReturnPath(reconstruct_path(came_from, current, start_node))
               /\ pc' = "done"
               /\ open_set' = open_set \ {entry}
               /\ open_set_hash' = hash1
               /\ UNCHANGED <<came_from, g_score, f_score>>
          ELSE /\ came_from' = [n \in DOMAIN came_from \cup imp |->
                                  IF n \in imp THEN current ELSE came_from[n]]
               /\ g_score' = [n \in DOMAIN g_score |->
                                IF n \in imp THEN tentative(n) ELSE g_score[n]]
               /\ f_score' = [n \in DOMAIN f_score |->
                                IF n \in imp THEN f(n) ELSE f_score[n]]
               /\ open_set' = (open_set \ {entry})
                                \cup {<<f(n), n>> : n \in imp \ hash1}
               /\ open_set_hash' = hash1 \cup imp
               /\ UNCHANGED <<result, pc>>
    /\ UNCHANGED <<heap, road_network, start_node, disaster_node, disaster_radius,
                   exit_nodes, session>>

(* the loop ends with the frontier empty: no path was found *)
SearchExhausted ==
    /\ pc = "search"
    /\ open_set = {}
    /\ result' = ReturnNone
    /\ pc' = "done"
    /\ UNCHANGED <<heap, road_network, start_node, disaster_node, disaster_radius,
                   exit_nodes, open_set, open_set_hash, came_from, g_score, f_score,
                   session>>

Next == FilterRoadNetwork \/ AStarCall \/ SearchStep \/ SearchExhausted

Spec == Init /\ [][Next]_vars

(* ------------- a_star_evacuation as one call (for app.py) ------------- *)

(* the search loop from the state st of its locals to its return *)
RECURSIVE search_loop(_, _, _, _, _, _)
search_loop(G, start, exits, dnode, radius, st) ==
    IF st.open_set = {} THEN ReturnNone
    ELSE LET entry == pq_min(st.open_set)
             current == entry[2]
             hash1 == st.open_set_hash \ {current}
             tentative(nb) == Plus(st.g_score[current], edge_cost(G, current, nb))
             imp == {nb \in neighbors(G, current) :
                        /\ ~Get(G.node[nb], "is_water", FALSE)
                        /\ tentative(nb) < st.g_score[nb]}
             f(nb) == Plus(tentative(nb) * 2 * radius,
                           heuristic(G, exits, dnode, radius, nb))
         IN IF current \in Range(exits)
            THEN ReturnPath(reconstruct_path(st.came_from, current, start))
            ELSE search_loop(G, start, exits, dnode, radius,
                    [open_set |-> (st.open_set \ {entry})
                                     \cup {<<f(n), n>> : n \in imp \ hash1},
                     open_set_hash |-> hash1 \cup imp,
                     came_from |-> [n \in DOMAIN st.came_from \cup imp |->
                                      IF n \in imp THEN current ELSE st.came_from[n]],
                     g_score |-> [n \in DOMAIN st.g_score |->
                                    IF n \in imp THEN tentative(n) ELSE st.g_score[n]],
                     f_score |-> [n \in DOMAIN st.f_score |->
                                    IF n \in imp THEN f(n) ELSE st.f_score[n]]])

a_star_evacuation(G, start, dnode, radius) ==
    IF start = NoneNode THEN ReturnNone
    ELSE IF ~has_xy(G.node[start]) THEN RaiseKeyError
    ELSE IF ~is_in_disaster_radius(start, dnode, radius, G) THEN ReturnPath(<<>>)
    ELSE LET exits == get_disaster_exit_nodes(G, dnode, radius)
         IN IF exits = <<>> THEN ReturnNone
            ELSE search_loop(G, start, exits, dnode, radius,
                    [open_set |-> {<<0, start>>},
                     open_set_hash |-> {start},
                     came_from |-> EmptyDict,
                     g_score |-> [n \in Nodes(G) |-> IF n = start THEN 0 ELSE Inf],
                     f_score |-> [n \in Nodes(G) |->
                                    IF n = start
                                    THEN heuristic(G, exits, dnode, radius, start)
                                    ELSE Inf]])

(* the stepwise search and the single call return the same *)
CallAgreesWithSteps ==
    pc = "done" =>
        result = a_star_evacuation(RoadNetwork, start_node, disaster_node, disaster_radius)

(* ------------------- data_processing: app helpers --------------------- *)

(* the node with coordinates nearest to (lat, lon); the first such node in *)
(* iteration order on a tie; None on a graph without coordinates           *)
get_nearest_node(G, lat, lon) ==
    LET located == {n \in Nodes(G) : has_xy(G.node[n])}
        dist(n) == haversine_distance(lat, lon, G.node[n]["y"], G.node[n]["x"])
    IN IF located = {} THEN NoneNode
       ELSE CHOOSE n \in located :
               \A o \in located : dist(n) < dist(o) \/ (dist(n) = dist(o) /\ n <= o)

check_if_in_radius(point, center, radius) ==
    haversine_distance(point[1], point[2], center[1], center[2]) <= radius

(* ----------------------- app.py: the session -------------------------- *)

(* what the operator enters: slider positions 800 m and 1000 m, two hazard *)
(* centres 200 m apart and two person positions, all on the meridian       *)
SliderRadii == {16, 20}

DisasterPoints == {<<0, 0>>, <<4, 0>>}

PersonPoints == {<<7, 0>>, <<17, 0>>}

MaxPersons == 2

(* the networks the application loads: osmnx yields a MultiDiGraph whose   *)
(* nodes all carry coordinates                                             *)
InitApp ==
    /\ \E pos \in SitePos, E \in SUBSET CandEdges, wl \in BOOLEAN :
          heap = Loaded(RoutingNet(pos, E, {}, wl, TRUE))
    /\ road_network = 0
    /\ pc = "load"
    /\ start_node = NoneNode
    /\ disaster_node = <<0, 0>>
    /\ disaster_radius = 0
    /\ exit_nodes = <<>>
    /\ open_set = {}
    /\ open_set_hash = {}
    /\ came_from = EmptyDict
    /\ g_score = EmptyDict
    /\ f_score = EmptyDict
    /\ result = NoResult
    /\ session = NewSession

engine_vars == <<pc, start_node, disaster_node, disaster_radius, exit_nodes, open_set,
                 open_set_hash, came_from, g_score, f_score, result>>

(* app.py:97-112: the run that finds the map uninitialised downloads the   *)
(* network again, annotates it and stores it                               *)
LoadNetwork ==
    /\ ~session.map_initialized
    /\ LET r == filter_road_network(Loaded(heap[G_source]), G_source)
       IN /\ heap' = r.heap
          /\ road_network' = r.ref
    /\ session' = [session EXCEPT !.map_initialized = TRUE]
    /\ UNCHANGED engine_vars

(* the route the application computes for a person: None when the person   *)
(* is outside the radius, or when the call raises (the handler catches it) *)
person_route(G, person, center, radius) ==
    IF ~check_if_in_radius(person, center, radius) THEN ReturnNone
    ELSE LET route == a_star_evacuation(G, get_nearest_node(G, person[1], person[2]),
                                        center, radius)
         IN IF route = RaiseKeyError THEN ReturnNone ELSE route

(* `if route:` *)
truthy(route) == route.kind = "path" /\ route.path # <<>>

(* app.py:71-75: the slider value is stored; nothing else happens *)
ChangeRadius ==
    /\ session.map_initialized
    /\ \E r \in SliderRadii \ {session.disaster_radius} :
          session' = [session EXCEPT !.disaster_radius = r]
    /\ UNCHANGED <<heap, road_network, engine_vars>>

(* app.py:79-82 *)
ClearDisasterNode ==
    /\ session.map_initialized
    /\ session' = [session EXCEPT !.disaster_node = NoDisaster,
                                  !.evacuation_routes = EmptyDict]
    /\ UNCHANGED <<heap, road_network, engine_vars>>

(* app.py:84-87 *)
ClearPersonNodes ==
    /\ session.map_initialized
    /\ session' = [session EXCEPT !.person_nodes = <<>>,
                                  !.evacuation_routes = EmptyDict]
    /\ UNCHANGED <<heap, road_network, engine_vars>>

(* app.py:89-94 *)
ClearAll ==
    /\ session.map_initialized
    /\ session' = [session EXCEPT !.disaster_node = NoDisaster,
                                  !.person_nodes = <<>>,
                                  !.evacuation_routes = EmptyDict,
                                  !.map_initialized = FALSE]
    /\ UNCHANGED <<heap, road_network, engine_vars>>

(* app.py:134-166: the hazard is placed and every person's route redone *)
AddDisasterZone ==
    /\ session.map_initialized
    /\ \E center \in DisasterPoints :
          LET G == RoadNetwork
              route(p) == person_route(G, p, center, session.disaster_radius)
              routed == {p \in Range(session.person_nodes) : truthy(route(p))}
          IN session' = [session EXCEPT
                            !.disaster_node = center,
                            !.evacuation_routes = [p \in routed |-> route(p).path]]
    /\ UNCHANGED <<heap, road_network, engine_vars>>

(* app.py:173-212: a new person is recorded and, with a hazard placed,     *)
(* routed                                                                  *)
AddPerson ==
    /\ session.map_initialized
    /\ Len(session.person_nodes) < MaxPersons
    /\ \E new_person \in PersonPoints \ Range(session.person_nodes) :
          LET G == RoadNetwork
              route == IF session.disaster_node = NoDisaster THEN ReturnNone
                       ELSE person_route(G, new_person, session.disaster_node,
                                         session.disaster_radius)
          IN session' = [session EXCEPT
                            !.person_nodes = Append(@, new_person),
                            !.evacuation_routes =
                                IF truthy(route) THEN SetItem(@, new_person, route.path)
                                ELSE @]
    /\ UNCHANGED <<heap, road_network, engine_vars>>

NextApp ==
    \/ LoadNetwork
    \/ ChangeRadius
    \/ ClearDisasterNode
    \/ ClearPersonNodes
    \/ ClearAll
    \/ AddDisasterZone
    \/ AddPerson

SpecApp == InitApp /\ [][NextApp]_vars


(* ============================== claims ================================ *)

Returned == pc = "done"

RouteReturned == pc = "done" /\ result.kind = "path" /\ result.path # <<>>

NodeWater(n) == Get(RoadNetwork.node[n], "is_water", FALSE)

EdgeWater(u, v) == {u, v} \in Edges(RoadNetwork) /\ Get(RoadNetwork.edge[{u, v}], "is_water", FALSE)

StartDistance == center_distance(RoadNetwork, start_node, disaster_node)

(* C1: a route returned by a_star_evacuation never contains a node whose   *)
(* is_water flag is true, the start node included.                         *)
C1_NoWaterNodeOnRoute ==
    RouteReturned => \A i \in DOMAIN result.path : ~NodeWater(result.path[i])

(* C2: no two consecutive nodes of a returned route are joined by an edge  *)
(* whose is_water flag is true.                                            *)
C2_NoWaterEdgeOnRoute ==
    RouteReturned =>
        \A i \in 1..(Len(result.path) - 1) : ~EdgeWater(result.path[i], result.path[i + 1])

(* an edge carries a bridge tag whose value is none of 'no', 'false', '0' *)
BridgeTagged(data) ==
    "bridge" \in DOMAIN data /\ data["bridge"] # "no" /\ data["bridge"] # "false"
        /\ data["bridge"] # "0"

(* C3: every edge with a bridge tag whose value is not 'no', 'false' or    *)
(* '0' has is_water false after filter_road_network, whatever its ends'    *)
(* is_water flags and whatever water tags it carries.                      *)
C3_BridgeNeverWater ==
    pc # "load" =>
        \A e \in Edges(RoadNetwork) :
            BridgeTagged(RoadNetwork.edge[e]) => RoadNetwork.edge[e]["is_water"] = FALSE

C3_Witness ==
    /\ pc = "ready"
    /\ \E e \in Edges(RoadNetwork) :
          /\ BridgeTagged(RoadNetwork.edge[e])
          /\ \A n \in e : NodeWater(n)
          /\ "waterway" \in DOMAIN RoadNetwork.edge[e]
          /\ RoadNetwork.edge[e]["is_water"] = FALSE

(* C4: for a start node with coordinates, a_star_evacuation returns the    *)
(* empty sequence, with no exit discovery and no search, exactly when the  *)
(* start node is farther from the centre than the radius; at distance      *)
(* equal to the radius it goes on to exit discovery and the search.        *)
C4_AlreadySafeIffOutside ==
    (pc \in {"search", "done"} /\ start_node # NoneNode
        /\ has_xy(RoadNetwork.node[start_node])) =>
        /\ (result = ReturnPath(<<>>)) <=> (StartDistance > disaster_radius)
        /\ StartDistance > disaster_radius =>
              (pc = "done" /\ exit_nodes = <<>> /\ g_score = EmptyDict /\ open_set = {})
        /\ StartDistance <= disaster_radius =>
              (exit_nodes = get_disaster_exit_nodes(RoadNetwork, disaster_node, disaster_radius)
               /\ (pc = "search" \/ result.kind \in {"None", "path"}))

C4_Witness ==
    /\ pc = "search"
    /\ StartDistance = disaster_radius
    /\ open_set_hash = {start_node}

(* C5: get_disaster_exit_nodes returns at most 10 node identifiers, none   *)
(* of them a node with is_water true.                                      *)
C5_ExitNodesBounded ==
    pc \in {"search", "done"} =>
        /\ Len(exit_nodes) <= 10
        /\ \A i \in DOMAIN exit_nodes : ~NodeWater(exit_nodes[i])

C5_Witness ==
    /\ pc = "search"
    /\ Len(exit_nodes) = 10
    /\ Cardinality(exit_node_candidates(RoadNetwork, disaster_node, disaster_radius)) > 10
    /\ \E n \in neighbors(RoadNetwork, start_node) :
          NodeWater(n) /\ center_distance(RoadNetwork, n, disaster_node) > disaster_radius

(* the chain of the scenarios: nodes 1..5 at 0 m, 400 m, 900 m, 1100 m and *)
(* 1600 m, joined neighbour to neighbour, all with coordinates, no water   *)
(* node; hazard centre at node 1, radius 1000 m                            *)
ChainPos(G) ==
    /\ Nodes(G) = 1..5
    /\ \A n \in 1..5 : has_xy(G.node[n]) /\ ~Get(G.node[n], "is_water", FALSE)
    /\ <<G.node[1]["y"], G.node[2]["y"], G.node[3]["y"], G.node[4]["y"], G.node[5]["y"]>>
          = <<0, 8, 18, 22, 32>>
    /\ Edges(G) = {{1, 2}, {2, 3}, {3, 4}, {4, 5}}

ChainCall ==
    /\ pc \in {"search", "done"}
    /\ start_node = 2
    /\ disaster_node = <<0, 0>>
    /\ disaster_radius = 20
    /\ ChainPos(RoadNetwork)

(* C6: on the chain with no water, routing from the 400 m node returns     *)
(* exactly [400 m, 900 m, 1100 m]: the 1100 m node is the only exit node   *)
(* and the search neither reaches the 1600 m node nor returns through the  *)
(* 0 m node.                                                               *)
C6_ChainRoute ==
    (ChainCall /\ \A e \in Edges(RoadNetwork) : ~Get(RoadNetwork.edge[e], "is_water", FALSE)) =>
        /\ exit_nodes = <<4>>
        /\ g_score[5] = Inf
        /\ pc = "done" => result = ReturnPath(<<2, 3, 4>>)

C6_Witness ==
    /\ ChainCall
    /\ \A e \in Edges(RoadNetwork) : "length" \notin DOMAIN RoadNetwork.edge[e]
    /\ \A e \in Edges(RoadNetwork) : ~Get(RoadNetwork.edge[e], "is_water", FALSE)
    /\ pc = "done"
    /\ result = ReturnPath(<<2, 3, 4>>)

(* C7: on the chain with the edge between the 900 m and 1100 m nodes       *)
(* flagged is_water (not a bridge), routing from the 400 m node returns    *)
(* None, never a path over the flagged edge.                               *)
C7_ChainBlocked ==
    (ChainCall /\ pc = "done"
        /\ \A e \in Edges(RoadNetwork) :
              Get(RoadNetwork.edge[e], "is_water", FALSE) <=> e = {3, 4}) =>
        result = ReturnNone

(* C8: filter_road_network leaves the graph it is given as it was (no      *)
(* is_water attribute appears in it) and returns a separate graph with    *)
(* the same nodes and edges, each carrying an is_water flag.              *)
C8_SourceUntouched ==
    [][(pc = "load" /\ pc' = "ready") =>
          /\ heap'[G_source] = heap[G_source]
          /\ road_network' # G_source
          /\ \A n \in Nodes(heap'[G_source]) : "is_water" \notin DOMAIN heap'[G_source].node[n]
          /\ \A e \in Edges(heap'[G_source]) : "is_water" \notin DOMAIN heap'[G_source].edge[e]
          /\ Nodes(heap'[road_network']) = Nodes(heap[G_source])
          /\ Edges(heap'[road_network']) = Edges(heap[G_source])
          /\ \A n \in Nodes(heap'[road_network']) :
                "is_water" \in DOMAIN heap'[road_network'].node[n]
          /\ \A e \in Edges(heap'[road_network']) :
                "is_water" \in DOMAIN heap'[road_network'].edge[e]]_vars

C8_Witness ==
    /\ pc = "ready"
    /\ \E n \in Nodes(RoadNetwork) :
          /\ RoadNetwork.node[n]["is_water"]
          /\ "is_water" \notin DOMAIN heap[G_source].node[n]
    /\ \E e \in Edges(RoadNetwork) :
          /\ RoadNetwork.edge[e]["is_water"]
          /\ "is_water" \notin DOMAIN heap[G_source].edge[e]

(* C9: for a network in which some nodes lack coordinates or some edges    *)
(* lack a length, and any start node of it, a_star_evacuation ends with a  *)
(* node path, the empty sequence or None, not with an exception.           *)
C9_NeverRaises ==
    Returned => result.kind \in {"path", "None"}

(* the least cost, over the paths of at most k edges from the start node   *)
(* that enter no is_water node, of reaching each node; an edge costs its   *)
(* length (100 m when it has none), times 10000 if it is flagged is_water  *)
ClaimEdgeCost(G, u, v) ==
    Get(G.edge[{u, v}], "length", default_length)
        * (IF Get(G.edge[{u, v}], "is_water", FALSE) THEN 10000 ELSE 1)

RECURSIVE LeastCost(_, _, _)
LeastCost(G, s, k) ==
    IF k = 0 THEN [n \in Nodes(G) |-> IF n = s THEN 0 ELSE Inf]
    ELSE LET prev == LeastCost(G, s, k - 1)
             via(n) == {Plus(prev[m], ClaimEdgeCost(G, m, n)) : m \in neighbors(G, n)}
         IN [n \in Nodes(G) |->
               IF Get(G.node[n], "is_water", FALSE) THEN prev[n]
               ELSE LET c == via(n) \cup {prev[n]}
                    IN CHOOSE x \in c : \A y \in c : x <= y]

RECURSIVE PathCost(_, _, _)
PathCost(G, path, i) ==
    IF i >= Len(path) THEN 0
    ELSE ClaimEdgeCost(G, path[i], path[i + 1]) + PathCost(G, path, i + 1)

(* C10: a returned route has the least total cost among the paths from     *)
(* the start node to any discovered exit node that enter no is_water node. *)
C10_RouteIsShortest ==
    RouteReturned =>
        LET best == LeastCost(RoadNetwork, start_node, Cardinality(Nodes(RoadNetwork)))
        IN \A i \in DOMAIN exit_nodes :
              PathCost(RoadNetwork, result.path, 1) <= best[exit_nodes[i]]

(* the nodes reached from s along edges for which edge_ok holds, entering  *)
(* only nodes that are not is_water (s itself is where the walk starts)    *)
RECURSIVE Reach(_, _, _)
Reach(G, seen, water_edges_ok) ==
    LET more == {n \in Nodes(G) \ seen :
                    /\ ~Get(G.node[n], "is_water", FALSE)
                    /\ \E m \in seen :
                          /\ {m, n} \in Edges(G)
                          /\ water_edges_ok \/ ~Get(G.edge[{m, n}], "is_water", FALSE)}
    IN IF more = {} THEN seen ELSE Reach(G, seen \cup more, water_edges_ok)

StartInside ==
    /\ start_node # NoneNode
    /\ has_xy(RoadNetwork.node[start_node])
    /\ StartDistance <= disaster_radius

(* C11: for a start node inside the radius, if a path over non-water nodes *)
(* and non-water edges leads from it to a node outside the radius, the     *)
(* result is a non-empty route, not None.                                  *)
C11_FindsWayOut ==
    (pc = "done" /\ StartInside /\ ~NodeWater(start_node)
        /\ \E n \in Reach(RoadNetwork, {start_node}, FALSE) :
              /\ has_xy(RoadNetwork.node[n])
              /\ center_distance(RoadNetwork, n, disaster_node) > disaster_radius)
    => RouteReturned

(* C13: a non-empty route starts at the start node, ends at a discovered   *)
(* exit node, and every two consecutive nodes are joined by an edge.       *)
C13_RouteWellFormed ==
    RouteReturned =>
        /\ result.path[1] = start_node
        /\ result.path[Len(result.path)] \in Range(exit_nodes)
        /\ \A i \in 1..(Len(result.path) - 1) :
              /\ {result.path[i], result.path[i + 1]} \in Edges(RoadNetwork)
              /\ came_from[result.path[i + 1]] = result.path[i]

C13_Witness ==
    /\ RouteReturned
    /\ Len(result.path) >= 3
    /\ result.path[Len(result.path)] \in Range(exit_nodes)

InitLoop ==
    /\ \E pos \in SitePos, E \in SUBSET CandEdges, wl \in BOOLEAN, m \in BOOLEAN :
          \E I \in {{}} \cup {{[kind |-> "water_edge", at |-> e]} : e \in E} :
             heap = Loaded(RoutingNet(pos, E, I, wl, m))
    /\ road_network = 0
    /\ pc = "load"
    /\ start_node = NoneNode
    /\ disaster_node = <<0, 0>>
    /\ disaster_radius = 0
    /\ exit_nodes = <<>>
    /\ open_set = {}
    /\ open_set_hash = {}
    /\ came_from = EmptyDict
    /\ g_score = EmptyDict
    /\ f_score = EmptyDict
    /\ result = NoResult
    /\ session = NewSession

(* the search loop is sequential code: an enabled iteration is taken *)
SpecLoop == InitLoop /\ [][Next]_vars /\ WF_vars(SearchStep) /\ WF_vars(SearchExhausted)

(* C15: the search loop terminates.  A node is put on the frontier only    *)
(* when its g_score strictly decreases and it is not already queued; an    *)
(* iteration that does not return either lowers a g_score (none rises) or  *)
(* shrinks the frontier; and every search that has started reaches its     *)
(* return.                                                                 *)
C15_SearchTerminates ==
    /\ [][pc = "search" =>
            \A n \in open_set_hash' \ open_set_hash : g_score'[n] < g_score[n]]_vars
    /\ [][pc = "search" =>
            \A e \in open_set' \ open_set :
                e[2] \notin (open_set_hash \ {pq_min(open_set)[2]})]_vars
    /\ [][pc = "search" /\ pc' = "search" =>
            /\ \A n \in Nodes(RoadNetwork) : g_score'[n] <= g_score[n]
            /\ \/ \E n \in Nodes(RoadNetwork) : g_score'[n] < g_score[n]
               \/ Cardinality(open_set') < Cardinality(open_set)]_vars
    /\ (pc = "search") ~> (pc = "done")

C15_Witness ==
    /\ pc = "done"
    /\ result # NoResult
    /\ Cardinality(DOMAIN came_from) >= 3

(* the node the iteration pops: the one leaving open_set_hash *)
Popped == open_set_hash \ open_set_hash'

(* C17: the node popped in an iteration has the lowest recorded f_score    *)
(* among the nodes on the frontier.                                        *)
C17_PopsLowestF ==
    [][pc = "search" /\ open_set # {} =>
          \A c \in Popped : \A n \in open_set_hash : f_score[c] <= f_score[n]]_vars

(* an incident edge of n has a major road class *)
OnMajorRoad(G, n) ==
    \E m \in neighbors(G, n) :
        /\ "highway" \in DOMAIN G.edge[{n, m}]
        /\ G.edge[{n, m}]["highway"] \in major_road_types

(* C16: an exit candidate gets the road-score bonus exactly when one of    *)
(* its incident edges has a major road class, whatever their order.        *)
C16_BonusIfAnyMajor ==
    \A i \in 1..Len(exit_nodes) :
        road_score2(RoadNetwork, exit_nodes[i]) =
            (IF OnMajorRoad(RoadNetwork, exit_nodes[i]) THEN 1 ELSE 0)

(* C12: every route stored in the session's evacuation_routes is the route *)
(* a_star_evacuation yields for that person under the session's current    *)
(* disaster centre and radius.                                             *)
C12_StoredRoutesCurrent ==
    session.map_initialized =>
        \A p \in DOMAIN session.evacuation_routes :
            /\ session.disaster_node # NoDisaster
            /\ a_star_evacuation(RoadNetwork,
                                 get_nearest_node(RoadNetwork, p[1], p[2]),
                                 session.disaster_node, session.disaster_radius)
                 = ReturnPath(session.evacuation_routes[p])
====
